---------------------------- MODULE Spec2Model ----------------------------
(***************************************************************************)
(* A model of the MIPS assembler of src/assemble.py: the operand field     *)
(* parsers, the instruction registry, assemble_line, assemble (directive   *)
(* scan, NOP expansion) and the two renderers.                             *)
(*                                                                         *)
(* Text is a sequence of one-character strings.  A bytes object is a       *)
(* sequence of byte values.  A Python int that can exceed 31 bits (the     *)
(* instruction word before to_bytes) is a record [neg, hi, lo] standing    *)
(* for hi * 2^16 + lo with 0 <= lo < 2^16.  Optional values: None is <<>>, *)
(* a present value v is <<v>>.  A call's result is either                  *)
(* [ok |-> TRUE, val |-> v] or a raised exception                          *)
(* [ok |-> FALSE, exc, fmt, arg, n, line].                                 *)
(***************************************************************************)
EXTENDS Integers, Sequences, FiniteSets, TLC

None == <<>>
Some(v) == <<v>>

Ok(v) == [ok |-> TRUE, val |-> v]
\* raise exc(fmt) where fmt is the message's f-string and arg, n its values
Raise(exc, fmt, arg, n) ==
    [ok |-> FALSE, exc |-> exc, fmt |-> fmt, arg |-> arg, n |-> n, line |-> None]

\* r, then F of its value: an exception raised in r propagates past F
Then(r, F(_)) == IF r.ok THEN F(r.val) ELSE r

(***************************************************************************)
(* Python str methods used by the assembler                                *)
(***************************************************************************)
Whitespace == {" ", "\t", "\n"}

RECURSIVE str_lstrip(_)
str_lstrip(s) ==
    IF s # <<>> /\ Head(s) \in Whitespace THEN str_lstrip(Tail(s)) ELSE s

RECURSIVE str_rstrip(_)
str_rstrip(s) ==
    IF s # <<>> /\ s[Len(s)] \in Whitespace
    THEN str_rstrip(SubSeq(s, 1, Len(s) - 1))
    ELSE s

str_strip(s) == str_rstrip(str_lstrip(s))

str_startswith(s, p) == Len(s) >= Len(p) /\ SubSeq(s, 1, Len(p)) = p

str_contains(s, c) == \E i \in 1..Len(s) : s[i] = c

\* index of the first (last) occurrence of the character c, 0 when absent
str_find(s, c) ==
    IF str_contains(s, c)
    THEN CHOOSE i \in 1..Len(s) : s[i] = c /\ \A j \in 1..(i - 1) : s[j] # c
    ELSE 0

str_rfind(s, c) ==
    IF str_contains(s, c)
    THEN CHOOSE i \in 1..Len(s) : s[i] = c /\ \A j \in (i + 1)..Len(s) : s[j] # c
    ELSE 0

\* s.partition(c) = (before, sep, after); (s, "", "") when c is absent
str_partition(s, c) ==
    LET i == str_find(s, c)
    IN  IF i = 0 THEN <<s, <<>>, <<>>>>
        ELSE <<SubSeq(s, 1, i - 1), <<c>>, SubSeq(s, i + 1, Len(s))>>

\* s.rpartition(c) = (before, sep, after); ("", "", s) when c is absent
str_rpartition(s, c) ==
    LET i == str_rfind(s, c)
    IN  IF i = 0 THEN <<<<>>, <<>>, s>>
        ELSE <<SubSeq(s, 1, i - 1), <<c>>, SubSeq(s, i + 1, Len(s))>>

\* s.split(c): always at least one piece
RECURSIVE str_split(_, _)
str_split(s, c) ==
    LET i == str_find(s, c)
    IN  IF i = 0 THEN <<s>>
        ELSE <<SubSeq(s, 1, i - 1)>> \o str_split(SubSeq(s, i + 1, Len(s)), c)

\* s.replace(c, "")
RECURSIVE str_remove(_, _)
str_remove(s, c) ==
    IF s = <<>> THEN <<>>
    ELSE (IF Head(s) = c THEN <<>> ELSE <<Head(s)>>) \o str_remove(Tail(s), c)

\* s.zfill(width): zeros go after a leading sign
str_zfill(s, width) ==
    LET pad == [i \in 1..(width - Len(s)) |-> "0"]
    IN  IF Len(s) >= width THEN s
        ELSE IF s # <<>> /\ Head(s) \in {"+", "-"}
             THEN <<Head(s)>> \o pad \o Tail(s)
             ELSE pad \o s

Digits == <<"0", "1", "2", "3", "4", "5", "6", "7", "8", "9">>
IsDigit(c) == \E i \in 1..10 : Digits[i] = c
DigitVal(c) == (CHOOSE i \in 1..10 : Digits[i] = c) - 1

HexLower == <<"0", "1", "2", "3", "4", "5", "6", "7", "8", "9",
              "a", "b", "c", "d", "e", "f">>
HexUpper == <<"0", "1", "2", "3", "4", "5", "6", "7", "8", "9",
              "A", "B", "C", "D", "E", "F">>
IsHexDigit(c) == \E i \in 1..16 : HexLower[i] = c \/ HexUpper[i] = c
HexVal(c) == (CHOOSE i \in 1..16 : HexLower[i] = c \/ HexUpper[i] = c) - 1

\* value of a digit string that may hold underscores
RECURSIVE DecValue(_, _)
DecValue(s, acc) ==
    IF s = <<>> THEN acc
    ELSE IF Head(s) = "_" THEN DecValue(Tail(s), acc)
    ELSE DecValue(Tail(s), acc * 10 + DigitVal(Head(s)))

\* int(text): surrounding whitespace, an optional sign, digits with single
\* underscores between them; anything else is a ValueError
int_well_formed(body) ==
    /\ body # <<>>
    /\ \A i \in 1..Len(body) : IsDigit(body[i]) \/ body[i] = "_"
    /\ body[1] # "_" /\ body[Len(body)] # "_"
    /\ \A i \in 1..(Len(body) - 1) : ~(body[i] = "_" /\ body[i + 1] = "_")

int_signed(text, neg, body) ==
    IF int_well_formed(body)
    THEN Ok(IF neg THEN 0 - DecValue(body, 0) ELSE DecValue(body, 0))
    ELSE Raise("ValueError", "invalid literal for int() with base 10: {}", text, 0)

int_stripped(text, s) ==
    IF s # <<>> /\ Head(s) \in {"+", "-"}
    THEN int_signed(text, Head(s) = "-", Tail(s))
    ELSE int_signed(text, FALSE, s)

py_int(text) == int_stripped(text, str_strip(text))

\* int.from_bytes(bytes.fromhex(text), byteorder="big") for text t with no
\* whitespace in front: pairs of hex digits, whitespace between the pairs only
RECURSIVE from_hex(_, _, _)
from_hex(text, t, acc) ==
    IF t = <<>> THEN Ok(acc)
    ELSE IF Len(t) >= 2 /\ IsHexDigit(t[1]) /\ IsHexDigit(t[2])
    THEN from_hex(text, str_lstrip(SubSeq(t, 3, Len(t))),
                  acc * 256 + HexVal(t[1]) * 16 + HexVal(t[2]))
    ELSE Raise("ValueError", "non-hexadecimal number found in fromhex() arg", text, 0)

(***************************************************************************)
(* Python ints and bit operations                                          *)
(***************************************************************************)
RECURSIVE BitOr(_, _)
BitOr(a, b) ==
    IF a = 0 THEN b
    ELSE IF b = 0 THEN a
    ELSE (IF a % 2 = 1 \/ b % 2 = 1 THEN 1 ELSE 0) + 2 * BitOr(a \div 2, b \div 2)

RECURSIVE Pow2(_)
Pow2(k) == IF k = 0 THEN 1 ELSE 2 * Pow2(k - 1)

\* a Python int as [neg, hi, lo]: hi * 2^16 + lo when neg is FALSE; of a
\* negative int only the sign is kept (to_bytes is its only reader)
Wide(n) == [neg |-> n < 0,
            hi  |-> IF n < 0 THEN 0 ELSE n \div 65536,
            lo  |-> IF n < 0 THEN 0 ELSE n % 65536]

\* n << k
ShiftLeft(n, k) ==
    IF n < 0 THEN Wide(-1)
    ELSE IF k >= 16 THEN [neg |-> FALSE, hi |-> n * Pow2(k - 16), lo |-> 0]
    ELSE Wide(n * Pow2(k))

\* a | b: negative exactly when one operand is
WideOr(a, b) ==
    IF a.neg \/ b.neg THEN Wide(-1)
    ELSE [neg |-> FALSE, hi |-> BitOr(a.hi, b.hi), lo |-> BitOr(a.lo, b.lo)]

\* w << 16 for w below 2^16 * 2^16
WideShl16(w) ==
    IF w.neg THEN w ELSE [neg |-> FALSE, hi |-> w.hi * 65536 + w.lo, lo |-> 0]

\* w >> 16
WideShr16(w) ==
    IF w.neg THEN w ELSE [neg |-> FALSE, hi |-> w.hi \div 65536, lo |-> w.hi % 65536]

\* int.to_bytes(length=2, byteorder="big", signed=False)
to_bytes2(w) ==
    IF w.neg
    THEN Raise("OverflowError", "can't convert negative int to unsigned", <<>>, 0)
    ELSE IF w.hi > 0
    THEN Raise("OverflowError", "int too big to convert", <<>>, 0)
    ELSE Ok(<<w.lo \div 256, w.lo % 256>>)

\* Instruction.to_bytes: instr.to_bytes(length=4, byteorder="big")
to_bytes(w) ==
    IF w.neg
    THEN Raise("OverflowError", "can't convert negative int to unsigned", <<>>, 0)
    ELSE IF w.hi >= 65536
    THEN Raise("OverflowError", "int too big to convert", <<>>, 0)
    ELSE Ok(<<w.hi \div 256, w.hi % 256, w.lo \div 256, w.lo % 256>>)

(***************************************************************************)
(* Operand field parsers                                                   *)
(***************************************************************************)
\* value of a bitstring, evaluated as the loop over reversed(text) does
RECURSIVE BitsValue(_, _, _)
BitsValue(s, power, val) ==
    IF s = <<>> THEN Ok(val)
    ELSE LET bit == s[Len(s)]
         IN  IF bit \notin {"0", "1"}
             THEN Raise("AssertionError", "invalid bitstring character {}", <<bit>>, 0)
             ELSE BitsValue(SubSeq(s, 1, Len(s) - 1), power + 1,
                            IF bit = "1" THEN val + Pow2(power) ELSE val)

hex_even(t) == IF Len(t) % 2 = 1 THEN str_zfill(t, Len(t) + 1) ELSE t

Imm_parse_hex(text) ==
    from_hex(hex_even(SubSeq(text, 3, Len(text))),
             str_lstrip(hex_even(SubSeq(text, 3, Len(text)))), 0)

Imm_parse_bits(text) ==
    LET t == str_remove(str_remove(SubSeq(text, 3, Len(text)), "_"), " ")
    IN  IF Len(t) > 16
        THEN Raise("AssertionError", "bitstring literal {} too long for 16-bit field", t, 0)
        ELSE BitsValue(t, 0, 0)

\* the conversion with a one's-complement pattern for negative values
imm_from_int_ones(text, r) ==
    IF ~r.ok THEN Raise("AssertionError", "Invalid immediate {}", text, 0)
    ELSE IF r.val < 0
    THEN IF r.val >= -32768
         THEN Ok(r.val + 65535)
         ELSE Raise("AssertionError", "immediate of {} cannot fit in the field", <<>>, r.val)
    ELSE Ok(r.val)

\* the decimal branch, r being what int(text) gave
imm_from_int(text, r) ==
    IF ~r.ok THEN Raise("AssertionError", "Invalid immediate {}", text, 0)
    ELSE IF r.val < 0
    THEN IF r.val >= -32768
         THEN Ok(r.val + 65536)
         ELSE Raise("AssertionError", "immediate of {} cannot fit in the field", <<>>, r.val)
    ELSE Ok(r.val)

Imm_parse_decimal(text) == imm_from_int(text, py_int(text))

\* Imm.parse: the value of the imm field, or the exception raised
Imm_value(text) ==
    IF str_startswith(text, <<"0", "x">>) THEN Imm_parse_hex(text)
    ELSE IF str_startswith(text, <<"0", "b">>) \/ str_startswith(text, <<"2", "_">>)
    THEN Imm_parse_bits(text)
    ELSE Imm_parse_decimal(text)

Imm_parse(text) == Then(Imm_value(text), LAMBDA val : Ok("imm" :> val))

\* the groups dict, in iteration order
RegGroups == <<[name |-> "v", start_off |-> 2], [name |-> "a", start_off |-> 4],
               [name |-> "t", start_off |-> 8], [name |-> "s", start_off |-> 16],
               [name |-> "k", start_off |-> 26]>>

RECURSIVE reg_group_lookup(_, _)
reg_group_lookup(reg_name, i) ==
    IF i > Len(RegGroups)
    THEN Raise("AssertionError", "invalid register name {}", reg_name, 0)
    ELSE IF str_startswith(reg_name, <<RegGroups[i].name>>)
    THEN Then(py_int(Tail(reg_name)), LAMBDA n : Ok(RegGroups[i].start_off + n))
    ELSE reg_group_lookup(reg_name, i + 1)

reg_name_to_number(reg_name) ==
    IF reg_name = <<"a", "t">> THEN Ok(1)
    ELSE IF reg_name = <<"g", "p">> THEN Ok(28)
    ELSE IF reg_name = <<"s", "p">> THEN Ok(29)
    ELSE IF reg_name = <<"f", "p">> THEN Ok(30)
    ELSE IF reg_name = <<"r", "a">> THEN Ok(31)
    ELSE IF reg_name = <<"t", "8">> THEN Ok(24)
    ELSE IF reg_name = <<"t", "9">> THEN Ok(25)
    ELSE reg_group_lookup(reg_name, 1)

\* the try/except around int(value): is_reg_num decides
reg_num_or_name(value, r) == IF r.ok THEN r ELSE reg_name_to_number(value)

reg_spec_to_number(text) ==
    IF ~str_startswith(text, <<"$">>)
    THEN Raise("AssertionError", "Register spec {} did not start with $", text, 0)
    ELSE reg_num_or_name(Tail(text), py_int(Tail(text)))

Register_parse(field_name, text) ==
    Then(reg_spec_to_number(text), LAMBDA n : Ok(field_name :> n))

\* the dict display of Offset.parse: the register is evaluated before the immediate
Offset_fields(register_field_name, reg_part, imm_part) ==
    Then(reg_spec_to_number(reg_part),
         LAMBDA n : Then(Imm_parse(imm_part),
                         LAMBDA imm : Ok(imm @@ (register_field_name :> n))))

Offset_parts(register_field_name, parts) ==
    Offset_fields(register_field_name,
                  SubSeq(parts[3], 1, Len(parts[3]) - 1),
                  IF Len(parts[1]) = 0 THEN <<"0">> ELSE parts[1])

Offset_parse(register_field_name, text) ==
    Offset_parts(register_field_name, str_rpartition(text, "("))

\* operand_parser.parse(raw_operand) for the parser classes of the registry
Field_parse(operand_parser, text) ==
    CASE operand_parser = "Imm"      -> Imm_parse(text)
      [] operand_parser = "Rt"       -> Register_parse("rt", text)
      [] operand_parser = "Rs"       -> Register_parse("rs", text)
      [] operand_parser = "Rd"       -> Register_parse("rd", text)
      [] operand_parser = "OffsetRs" -> Offset_parse("rs", text)

(***************************************************************************)
(* Instruction registry and encoders                                       *)
(***************************************************************************)
Descriptor(name, cls, opcode, funct, format) ==
    [name |-> name, cls |-> cls, opcode |-> opcode, funct |-> funct, format |-> format]

Addi  == Descriptor(<<"a", "d", "d", "i">>, "IType", 8, 0, <<"Rt", "Rs", "Imm">>)
Andi  == Descriptor(<<"a", "n", "d", "i">>, "IType", 12, 0, <<"Rt", "Rs", "Imm">>)
Ori   == Descriptor(<<"o", "r", "i">>, "IType", 13, 0, <<"Rt", "Rs", "Imm">>)
Xori  == Descriptor(<<"x", "o", "r", "i">>, "IType", 14, 0, <<"Rt", "Rs", "Imm">>)
Sw    == Descriptor(<<"s", "w">>, "IType", 43, 0, <<"Rt", "OffsetRs">>)
Lw    == Descriptor(<<"l", "w">>, "IType", 35, 0, <<"Rt", "OffsetRs">>)
Multu == Descriptor(<<"m", "u", "l", "t", "u">>, "RType", 0, 25, <<"Rd", "Rs", "Rt">>)
Sll   == Descriptor(<<"s", "l", "l">>, "RType", 0, 0, <<"Rd", "Rt", "Rs">>)
Sra   == Descriptor(<<"s", "r", "a">>, "RType", 0, 3, <<"Rd", "Rt", "Rs">>)
Srl   == Descriptor(<<"s", "r", "l">>, "RType", 0, 2, <<"Rd", "Rt", "Rs">>)
Add   == Descriptor(<<"a", "d", "d">>, "RType", 0, 32, <<"Rd", "Rs", "Rt">>)
Sub   == Descriptor(<<"s", "u", "b">>, "RType", 0, 34, <<"Rd", "Rs", "Rt">>)
And   == Descriptor(<<"a", "n", "d">>, "RType", 0, 36, <<"Rd", "Rs", "Rt">>)
Or    == Descriptor(<<"o", "r">>, "RType", 0, 37, <<"Rd", "Rs", "Rt">>)
Xor   == Descriptor(<<"x", "o", "r">>, "RType", 0, 38, <<"Rd", "Rs", "Rt">>)
Nop   == Descriptor(<<"n", "o", "p">>, "RType", 0, 0, <<>>)

instruction_types ==
    <<Addi, Andi, Ori, Xori, Sw, Lw, Multu, Sll, Sra, Srl, Add, Sub, And, Or, Xor, Nop>>

nop_machine_code == <<0, 0, 0, 0>>

\* a keyword argument of encode, or its default 0
Arg(kwargs, name) == IF name \in DOMAIN kwargs THEN kwargs[name] ELSE 0

\* the skeleton with rs one bit too high
base_val_rs_high(opcode, rs, rt) ==
    WideShl16(WideOr(WideOr(ShiftLeft(opcode, 10), ShiftLeft(rs, 6)), Wide(rt)))

\* Instruction._base_val: ((opcode << 10) | (rs << 5) | rt) << 16
base_val(opcode, rs, rt) ==
    WideShl16(WideOr(WideOr(ShiftLeft(opcode, 10), ShiftLeft(rs, 5)), Wide(rt)))

RType_encode(cls, kwargs) ==
    IF ~(DOMAIN kwargs \subseteq {"rs", "rt", "rd", "sh_amt"})
    THEN Raise("TypeError", "encode() got an unexpected keyword argument", <<>>, 0)
    ELSE LET instr0 == base_val(cls.opcode, Arg(kwargs, "rs"), Arg(kwargs, "rt"))
             instr1 == WideOr(instr0, ShiftLeft(Arg(kwargs, "rd"), 11))
             instr2 == WideOr(instr1, ShiftLeft(Arg(kwargs, "sh_amt"), 6))
             instr3 == WideOr(instr2, Wide(cls.funct))
         IN  to_bytes(instr3)

IType_encode(cls, kwargs) ==
    IF ~(DOMAIN kwargs \subseteq {"rs", "rt", "imm"})
    THEN Raise("TypeError", "encode() got an unexpected keyword argument", <<>>, 0)
    ELSE Then(to_bytes2(WideShr16(base_val(cls.opcode, Arg(kwargs, "rs"), Arg(kwargs, "rt")))),
              LAMBDA top_bytes :
                  IF ~(Arg(kwargs, "imm") <= 65535)
                  THEN Raise("AssertionError", "immediate of {} cannot fit in the field",
                             <<>>, Arg(kwargs, "imm"))
                  ELSE Then(to_bytes2(Wide(Arg(kwargs, "imm"))),
                            LAMBDA imm_bytes : Ok(top_bytes \o imm_bytes)))

\* instr_type.encode(**parsed_operands)
encode(cls, kwargs) ==
    IF cls.cls = "RType" THEN RType_encode(cls, kwargs) ELSE IType_encode(cls, kwargs)

(***************************************************************************)
(* assemble_line                                                           *)
(***************************************************************************)
\* the registry entries whose name is instr_name, in registry order
matching_instr_types(instr_name) ==
    SelectSeq(instruction_types, LAMBDA t : t.name = instr_name)

\* list(map(lambda s: s.strip(), operands.split(",")))[:n]
split_operands(operands, n) ==
    LET toks == str_split(operands, ",")
        kept == SubSeq(toks, 1, IF Len(toks) < n THEN Len(toks) ELSE n)
    IN  [i \in 1..Len(kept) |-> str_strip(kept[i])]

\* the zip loop merging the parsers' field maps; the first failing parser raises
RECURSIVE parse_operands(_, _, _, _)
parse_operands(format, operands, i, parsed) ==
    IF i > Len(format) \/ i > Len(operands) THEN Ok(parsed)
    ELSE Then(Field_parse(format[i], operands[i]),
              LAMBDA fields : parse_operands(format, operands, i + 1, fields @@ parsed))

\* the comment taken when the last kept operand holds ";" (line 341)
operand_comment(operands) ==
    IF Len(operands) < 2
    THEN Raise("IndexError", "list index out of range", <<>>, 0)
    ELSE Ok(str_strip(str_partition(operands[2], ";")[3]))

\* line 342: the last operand without its comment
strip_comment(operands) ==
    [operands EXCEPT ![Len(operands)] = str_strip(str_split(operands[Len(operands)], ";")[1])]

\* a successful return: the encoded bytes, the comment, and the locals the
\* properties read (the kept operands and the merged field map)
Line(instr, comment, operands, parsed) ==
    Ok([instr |-> instr, comment |-> comment, operands |-> operands, parsed |-> parsed])

\* lines 346-352 and 362
encode_operands(instr_type, instr_name, operands, comment) ==
    IF Len(operands) < Len(instr_type.format)
    THEN Raise("AssertionError", "instruction {} needs {} operands",
               instr_name, Len(instr_type.format))
    ELSE Then(parse_operands(instr_type.format, operands, 1, <<>>),
              LAMBDA parsed : Then(encode(instr_type, parsed),
                                   LAMBDA instr : Line(instr, comment, operands, parsed)))

\* lines 340-344
take_comment(instr_type, instr_name, operands) ==
    IF str_contains(operands[Len(operands)], ";")
    THEN Then(operand_comment(operands),
              LAMBDA comment : encode_operands(instr_type, instr_name,
                                               strip_comment(operands), Some(comment)))
    ELSE encode_operands(instr_type, instr_name, operands, None)

assemble_operands(instr_type, instr_name, rest) ==
    take_comment(instr_type, instr_name, split_operands(rest, Len(instr_type.format)))

\* lines 354-360 and 362
assemble_no_operands(instr_type, instr_name, rest) ==
    IF str_strip(IF str_contains(rest, ";")
                 THEN str_strip(str_partition(rest, ";")[1])
                 ELSE rest) # <<>>
    THEN Raise("AssertionError", "Did not expect operands for {}", instr_name, 0)
    ELSE Then(encode(instr_type, <<>>),
              LAMBDA instr : Line(instr,
                                  IF str_contains(rest, ";")
                                  THEN Some(str_strip(str_partition(rest, ";")[3]))
                                  ELSE None,
                                  <<>>, <<>>))

\* lines 330-362, matching being the registry entries named instr_name
assemble_matching(matching, instr_name, rest) ==
    IF Len(matching) = 0
    THEN Raise("AssertionError", "Unknown mnemonic {}", instr_name, 0)
    ELSE IF Len(matching) # 1
    THEN Raise("AssertionError",
               "Internal error: multiple instruction types registered with name {}",
               instr_name, 0)
    ELSE IF Len(matching[1].format) > 0
    THEN assemble_operands(matching[1], instr_name, rest)
    ELSE assemble_no_operands(matching[1], instr_name, rest)

\* line 324 on
assemble_instruction(parts) ==
    assemble_matching(matching_instr_types(parts[1]), parts[1], parts[3])

\* lines 319-322 on, line being the stripped text
assemble_stripped(line) ==
    IF line = <<>> THEN Line(<<>>, None, <<>>, <<>>)
    ELSE IF str_startswith(line, <<";">>)
    THEN Line(<<>>, Some(str_strip(str_partition(line, ";")[3])), <<>>, <<>>)
    ELSE assemble_instruction(str_partition(line, " "))

assemble_line(text) == assemble_stripped(str_strip(text))

(***************************************************************************)
(* Renderers                                                               *)
(***************************************************************************)
\* bytes.hex() with the given digit table
RECURSIVE bytes_hex(_, _)
bytes_hex(bs, digits) ==
    IF bs = <<>> THEN <<>>
    ELSE <<digits[(Head(bs) \div 16) + 1], digits[(Head(bs) % 16) + 1]>>
         \o bytes_hex(Tail(bs), digits)

\* "\n".join(lines)
RECURSIVE str_join_lines(_)
str_join_lines(lines) ==
    IF lines = <<>> THEN <<>>
    ELSE IF Len(lines) = 1 THEN lines[1]
    ELSE lines[1] \o <<"\n">> \o str_join_lines(Tail(lines))

\* the renderer with uppercase digits
machine_code_to_text_upper(machine_code) ==
    str_join_lines([i \in 1..Len(machine_code) |-> bytes_hex(machine_code[i][1], HexUpper)])

machine_code_to_text(machine_code) ==
    str_join_lines([i \in 1..Len(machine_code) |-> bytes_hex(machine_code[i][1], HexLower)])

\* the text one unit adds in machine_code_to_vhdl, its newline included
vhdl_unit(unit, byte_addressed) ==
    LET instr_hex == bytes_hex(unit[1], HexUpper)
        token(h)  == <<"x", "\"">> \o h \o <<"\"", ",">>
        bytes     == token(SubSeq(instr_hex, 1, 2)) \o <<" ">>
                     \o token(SubSeq(instr_hex, 3, 4)) \o <<" ">>
                     \o token(SubSeq(instr_hex, 5, 6)) \o <<" ">>
                     \o token(SubSeq(instr_hex, 7, 8))
        src       == IF unit[2] # None
                     THEN <<" ", "-", "-", " ">> \o str_strip(unit[2][1])
                     ELSE <<>>
    IN  <<" ", " ", " ", " ", " ", " ", " ", " ">>
        \o (IF byte_addressed THEN bytes ELSE token(instr_hex))
        \o src \o <<"\n">>

RECURSIVE vhdl_text(_, _)
vhdl_text(machine_code, byte_addressed) ==
    IF machine_code = <<>> THEN <<>>
    ELSE vhdl_unit(Head(machine_code), byte_addressed)
         \o vhdl_text(Tail(machine_code), byte_addressed)

machine_code_to_vhdl(machine_code, byte_addressed) ==
    LET text == vhdl_text(machine_code, byte_addressed)
    IN  SubSeq(text, 1, Len(text) - 1)

(***************************************************************************)
(* assemble: one invocation is Call, a ProcessLine per source line,        *)
(* ExpandNops, Render                                                      *)
(***************************************************************************)
VARIABLES
    pc,            \* "idle" | "loop" | "expand" | "render" | "returned" | "raised"
    kwargs,        \* the settings the caller passed (a partial map)
    source_lines,  \* the source_lines argument
    settings,      \* the settings dict of the running invocation
    instructions,  \* the list of (bytes, line) units
    idx,           \* number of source lines the loop has completed
    last,          \* what assemble_line returned or raised for the latest line
    result,        \* what the invocation returned or raised, None while running
    calls,         \* invocations started
    left,          \* add_nops as the previous invocation left it
    first          \* the first invocation: its arguments and its result

vars == <<pc, kwargs, source_lines, settings, instructions, idx, last, result,
          calls, left, first>>

DefaultSettings == [add_nops |-> FALSE, as_vhdl |-> FALSE, byte_addressed |-> FALSE]

\* the settings of an invocation that inherits what the previous one left
entry_settings_kept(kw) == kw @@ settings

\* the three settings.setdefault calls on the fresh dict built from **settings
entry_settings(kw) == kw @@ DefaultSettings

\* lines 289-296: the settings after the line's comment, or the failed assert
apply_comment(comment, cur) ==
    IF comment # None /\ str_startswith(comment[1], <<"p", "r", "a", "g", "m", "a">>)
    THEN LET directive == str_partition(comment[1], " ")[3]
         IN  IF directive = <<"n", "o", "p", "s", "_", "o", "n">>
             THEN Ok([cur EXCEPT !.add_nops = TRUE])
             ELSE IF directive = <<"n", "o", "p", "s", "_", "o", "f", "f">>
             THEN Ok([cur EXCEPT !.add_nops = FALSE])
             ELSE Raise("AssertionError", "unknown assembler directive {}", directive, 0)
    ELSE Ok(cur)

\* the except clause of the loop: an AssertionError is re-raised with the line
reraise(exception, line) ==
    IF exception.exc = "AssertionError"
    THEN [exception EXCEPT !.line = Some(line)]
    ELSE exception

\* the expansion that pads every unit, zero words included
RECURSIVE with_nops_all(_)
with_nops_all(units) ==
    IF units = <<>> THEN <<>>
    ELSE <<Head(units)>>
         \o [i \in 1..4 |-> <<nop_machine_code, None>>]
         \o with_nops_all(Tail(units))

\* lines 298-306
RECURSIVE with_nops(_)
with_nops(units) ==
    IF units = <<>> THEN <<>>
    ELSE <<Head(units)>>
         \o (IF Head(units)[1] # nop_machine_code
             THEN [i \in 1..4 |-> <<nop_machine_code, None>>]
             ELSE <<>>)
         \o with_nops(Tail(units))

render(units, cur) ==
    IF cur.as_vhdl
    THEN machine_code_to_vhdl(units, cur.byte_addressed)
    ELSE machine_code_to_text(units)

\* the invocation ends with res; the first one to end is remembered
Finish(res) ==
    /\ result' = Some(res)
    /\ first' = IF first = None
                THEN Some([kwargs |-> kwargs, source_lines |-> source_lines, result |-> res])
                ELSE first

Init ==
    /\ pc = "idle"
    /\ kwargs = <<>>
    /\ source_lines = <<>>
    /\ settings = DefaultSettings
    /\ instructions = <<>>
    /\ idx = 0
    /\ last = None
    /\ result = None
    /\ calls = 0
    /\ left = FALSE
    /\ first = None

\* the caller invokes assemble(lines, **kw)
Enter(lines, kw) ==
    /\ calls' = calls + 1
    /\ left' = settings.add_nops
    /\ kwargs' = kw
    /\ source_lines' = lines
    /\ settings' = entry_settings(kw)
    /\ instructions' = <<>>
    /\ idx' = 0
    /\ last' = None
    /\ result' = None
    /\ pc' = IF Len(lines) = 0 THEN "expand" ELSE "loop"
    /\ UNCHANGED first

\* an invocation on any of the given sources and settings, max_calls in all
Call(sources, kws, max_calls) ==
    /\ pc \in {"idle", "returned", "raised"}
    /\ calls < max_calls
    /\ \E lines \in sources, kw \in kws : Enter(lines, kw)

\* the body of the for loop, r being what assemble_line(line) gave
LoopBody(line, r) ==
    /\ last' = Some(r)
    /\ IF ~r.ok
       THEN /\ pc' = "raised"
            /\ Finish(reraise(r, line))
            /\ UNCHANGED <<instructions, settings, idx>>
       ELSE /\ instructions' = IF Len(r.val.instr) > 0
                               THEN Append(instructions, <<r.val.instr, Some(line)>>)
                               ELSE instructions
            /\ LET applied == apply_comment(r.val.comment, settings)
               IN  IF ~applied.ok
                   THEN /\ pc' = "raised"
                        /\ Finish(applied)
                        /\ UNCHANGED <<settings, idx>>
                   ELSE /\ settings' = applied.val
                        /\ idx' = idx + 1
                        /\ pc' = IF idx + 1 = Len(source_lines) THEN "expand" ELSE "loop"
                        /\ UNCHANGED <<result, first>>

ProcessLine ==
    /\ pc = "loop"
    /\ LoopBody(source_lines[idx + 1], assemble_line(source_lines[idx + 1]))
    /\ UNCHANGED <<kwargs, source_lines, calls, left>>

ExpandNops ==
    /\ pc = "expand"
    /\ instructions' = IF settings.add_nops THEN with_nops(instructions) ELSE instructions
    /\ pc' = "render"
    /\ UNCHANGED <<kwargs, source_lines, settings, idx, last, result, calls, left, first>>

Render ==
    /\ pc = "render"
    /\ Finish(Ok([instructions |-> instructions, code_text |-> render(instructions, settings)]))
    /\ pc' = "returned"
    /\ UNCHANGED <<kwargs, source_lines, settings, instructions, idx, last, calls, left>>

(***************************************************************************)
(* Inputs                                                                  *)
(***************************************************************************)
MaxLines == 3
MaxRunLines == 2
MaxCalls == 3

\* the sequences over S of length at most n
SeqsUpTo(S, n) == UNION {[1..k -> S] : k \in 0..n}

\* source lines of whole-program runs
SourceLines ==
    { <<>>,
      <<";", " ", "f", "i", "r", "s", "t", " ", "l", "i", "g", "h", "t", " ", "t", "h", "e", " ", "d", "i", "s", "p", "l", "a", "y">>,
      <<";", " ", "p", "r", "a", "g", "m", "a", " ", "n", "o", "p", "s", "_", "o", "n">>,
      <<";", " ", "p", "r", "a", "g", "m", "a", " ", "n", "o", "p", "s", "_", "o", "f", "f">>,
      <<";", " ", "p", "r", "a", "g", "m", "a", " ", "n", "o", "p", "s", "_", "a", "u", "t", "o">>,
      <<"a", "d", "d", "i", " ", "$", "t", "0", ",", " ", "$", "0", ",", " ", "6">>,
      <<"n", "o", "p">>,
      <<"s", "l", "l", " ", "$", "0", ",", " ", "$", "0", ",", " ", "$", "0">>,
      <<"a", "d", "d", "i", " ", "$", "t", "2", ",", " ", "$", "0", ",", " ", "1", " ", ";", " ", "p", "r", "a", "g", "m", "a", " ", "n", "o", "p", "s", "_", "o", "f", "f">>,
      <<"m", "o", "v", " ", "$", "t", "0", ",", " ", "$", "t", "1">> }

\* source lines of repeated runs
RunLines ==
    { <<";", " ", "p", "r", "a", "g", "m", "a", " ", "n", "o", "p", "s", "_", "o", "n">>,
      <<";", " ", "p", "r", "a", "g", "m", "a", " ", "n", "o", "p", "s", "_", "o", "f", "f">>,
      <<"a", "d", "d", "i", " ", "$", "t", "0", ",", " ", "$", "0", ",", " ", "6">>,
      <<"m", "o", "v", " ", "$", "t", "0", ",", " ", "$", "t", "1">> }

\* keyword arguments as the callers pass them (the form passes two, the bot three)
KwargsInputs ==
    { <<>>,
      ("add_nops" :> TRUE),
      ("add_nops" :> TRUE) @@ ("as_vhdl" :> TRUE),
      ("add_nops" :> FALSE) @@ ("as_vhdl" :> TRUE) @@ ("byte_addressed" :> TRUE) }

RunKwargs == { <<>>, ("add_nops" :> TRUE) }

\* operand texts per parser class
RegTexts ==
    { <<"$", "0">>,
      <<"$", "t", "1">>,
      <<"$", "r", "a">>,
      <<"$", "3", "2">>,
      <<"$", "-", "1">>,
      <<"$", "z", "z">> }

ImmTexts ==
    { <<"0">>,
      <<"6">>,
      <<"-", "1">>,
      <<"-", "3", "2", "7", "6", "8">>,
      <<"-", "3", "2", "7", "6", "9">>,
      <<"6", "5", "5", "3", "5">>,
      <<"6", "5", "5", "3", "6">>,
      <<"0", "x", "3", "f", "f">>,
      <<"0", "x", "z", "z">>,
      <<"0", "b", "1", "0", "1">>,
      <<"a", "b", "c">> }

OffsetTexts ==
    { <<"0", "x", "3", "f", "f", "(", "$", "0", ")">>,
      <<"(", "$", "t", "1", ")">>,
      <<"-", "4", "(", "$", "s", "p", ")">>,
      <<"4", "(", "$", "3", "2", ")">>,
      <<"8">> }

\* what may follow the operands on a line
Suffixes ==
    { <<>>,
      <<" ", ";", " ", "p", "r", "a", "g", "m", "a", " ", "n", "o", "p", "s", "_", "o", "n">>,
      <<";", "c">> }

OperandTexts(operand_parser) ==
    IF operand_parser = "Imm" THEN ImmTexts
    ELSE IF operand_parser = "OffsetRs" THEN OffsetTexts
    ELSE RegTexts

\* the operand lists tried for a format: every prefix of a well-typed list,
\* and the full lists with one operand too many
OperandLists(format) ==
    LET typed(k) == {ops \in [1..k -> RegTexts \cup ImmTexts \cup OffsetTexts] :
                        \A i \in 1..k : ops[i] \in OperandTexts(format[i])}
    IN  UNION {typed(k) : k \in 0..Len(format)}
        \cup {Append(ops, <<"$", "t", "1">>) : ops \in typed(Len(format))}

RECURSIVE join_operands(_)
join_operands(ops) ==
    IF ops = <<>> THEN <<>>
    ELSE IF Len(ops) = 1 THEN ops[1]
    ELSE ops[1] \o <<",", " ">> \o join_operands(Tail(ops))

make_line(name, ops, suffix) ==
    name \o (IF ops = <<>> THEN <<>> ELSE <<" ">> \o join_operands(ops)) \o suffix

\* single lines: every registry mnemonic with its operand lists and suffixes,
\* and one mnemonic the registry does not hold
LineInputs ==
    UNION {{make_line(instruction_types[t].name, ops, suf) :
               ops \in OperandLists(instruction_types[t].format), suf \in Suffixes} :
           t \in 1..Len(instruction_types)}
    \cup {make_line(<<"m", "o", "v">>, ops, suf) :
             ops \in OperandLists(<<"Rd", "Rs">>), suf \in Suffixes}

(***************************************************************************)
(* Specifications                                                          *)
(***************************************************************************)
\* one invocation on up to MaxLines lines
Next ==
    \/ Call(SeqsUpTo(SourceLines, MaxLines), KwargsInputs, 1)
    \/ ProcessLine
    \/ ExpandNops
    \/ Render

Spec == Init /\ [][Next]_vars

\* one invocation on a single line
NextLine ==
    \/ Call({<<line>> : line \in LineInputs}, {<<>>}, 1)
    \/ ProcessLine
    \/ ExpandNops
    \/ Render

SpecLine == Init /\ [][NextLine]_vars

\* up to MaxCalls invocations, one after the other
NextRuns ==
    \/ Call(SeqsUpTo(RunLines, MaxRunLines), RunKwargs, MaxCalls)
    \/ ProcessLine
    \/ ExpandNops
    \/ Render

SpecRuns == Init /\ [][NextRuns]_vars

(***************************************************************************)
(* Reading a source line as the specification describes it                 *)
(***************************************************************************)
\* the line the latest assemble_line call was given
LastLine == IF pc = "raised" THEN source_lines[idx + 1] ELSE source_lines[idx]

LineDone == last # None
LineOk == last # None /\ last[1].ok
\* the latest line assembled into a word
WordOk == LineOk /\ Len(last[1].val.instr) > 0

MnemonicOf(line) == str_partition(str_strip(line), " ")[1]
RemainderOf(line) == str_partition(str_strip(line), " ")[3]
IsBlank(line) == str_strip(line) = <<>>
IsCommentOnly(line) == str_startswith(str_strip(line), <<";">>)
IsRegistered(line) ==
    /\ ~IsBlank(line) /\ ~IsCommentOnly(line)
    /\ \E t \in 1..Len(instruction_types) : instruction_types[t].name = MnemonicOf(line)
DescriptorOf(line) ==
    instruction_types[CHOOSE t \in 1..Len(instruction_types) :
                          instruction_types[t].name = MnemonicOf(line)]
ArityOf(line) == Len(DescriptorOf(line).format)
\* the comma-separated tokens of the remainder
TokensOf(line) == str_split(RemainderOf(line), ",")
\* the text after the first ";" of a token, trimmed
CommentIn(token) == str_strip(str_partition(token, ";")[3])
\* the operand text of a token: what precedes its ";", trimmed
OperandIn(token) == str_strip(str_partition(token, ";")[1])

PragmaOn == <<"p", "r", "a", "g", "m", "a", " ", "n", "o", "p", "s", "_", "o", "n">>
PragmaOff == <<"p", "r", "a", "g", "m", "a", " ", "n", "o", "p", "s", "_", "o", "f", "f">>

ShiftNames == {Sll.name, Sra.name, Srl.name}
ArithNames == {Add.name, Sub.name, And.name, Or.name, Xor.name, Multu.name}
ImmediateNames == {Addi.name, Andi.name, Ori.name, Xori.name, Lw.name, Sw.name}

FieldOr0(fields, name) == IF name \in DOMAIN fields THEN fields[name] ELSE 0
FieldsFit(fields) ==
    \A name \in DOMAIN fields :
        IF name = "imm" THEN fields[name] \in 0..65535 ELSE fields[name] \in 0..31
\* the four bytes of the word whose high and low halves are hi and lo
WordBytes(hi, lo) == <<hi \div 256, hi % 256, lo \div 256, lo % 256>>
Low16(bytes) == bytes[3] * 256 + bytes[4]

(***************************************************************************)
(* C1  Every line that assembles with its registers in 0..31 and its imm   *)
(* in 0..65535 gives the word (opcode << 26) | (rs << 21) | (rt << 16) |   *)
(* low16, low16 being imm for the immediate-type instructions and          *)
(* (rd << 11) | (0 << 6) | funct for the register-type ones; the register  *)
(* operands are bound in the order (rd, rt, rs) for sll, sra, srl and      *)
(* (rd, rs, rt) for add, sub, and, or, xor, multu; nop is the zero word.   *)
(***************************************************************************)
C1_Bound(fields, operands, names) ==
    \A i \in 1..3 : fields[names[i]] = reg_spec_to_number(operands[i]).val

C1_WordLayout ==
    WordOk /\ FieldsFit(last[1].val.parsed) =>
        LET name   == MnemonicOf(LastLine)
            cls    == DescriptorOf(LastLine)
            fields == last[1].val.parsed
            hi     == cls.opcode * 1024 + FieldOr0(fields, "rs") * 32 + FieldOr0(fields, "rt")
            lo     == IF name \in ImmediateNames
                      THEN FieldOr0(fields, "imm")
                      ELSE FieldOr0(fields, "rd") * 2048 + 0 * 64 + cls.funct
        IN  /\ last[1].val.instr = WordBytes(hi, lo)
            /\ name \in ShiftNames =>
                   C1_Bound(fields, last[1].val.operands, <<"rd", "rt", "rs">>)
            /\ name \in ArithNames =>
                   C1_Bound(fields, last[1].val.operands, <<"rd", "rs", "rt">>)
            /\ name = Nop.name => last[1].val.instr = <<0, 0, 0, 0>>

\* a shift with three different registers, all in range, has been assembled
C1_Witness ==
    /\ WordOk /\ FieldsFit(last[1].val.parsed)
    /\ MnemonicOf(LastLine) \in ShiftNames
    /\ last[1].val.parsed["rd"] = 9
    /\ last[1].val.parsed["rt"] = 31
    /\ last[1].val.parsed["rs"] = 0

(***************************************************************************)
(* C2  The expansion is decided once, after the last line: add_nops is the *)
(* caller's setting overridden by the last pragma nops_on / nops_off in    *)
(* source order; when true, four NOP units follow every non-NOP unit of    *)
(* the whole sequence, when false no unit is inserted.                     *)
(***************************************************************************)
\* the comment of a line: of a comment-only line the text after ";", of an
\* instruction line the text after the ";" of its last kept token
CommentOf(line) ==
    IF IsBlank(line) THEN None
    ELSE IF IsCommentOnly(line) THEN Some(CommentIn(str_strip(line)))
    ELSE IF ~IsRegistered(line) THEN None
    ELSE IF ArityOf(line) = 0
    THEN IF str_contains(RemainderOf(line), ";")
         THEN Some(CommentIn(RemainderOf(line))) ELSE None
    ELSE IF Len(TokensOf(line)) >= ArityOf(line)
            /\ str_contains(TokensOf(line)[ArityOf(line)], ";")
    THEN Some(CommentIn(TokensOf(line)[ArityOf(line)]))
    ELSE None

RECURSIVE LastDirective(_, _)
LastDirective(lines, add_nops) ==
    IF lines = <<>> THEN add_nops
    ELSE LastDirective(Tail(lines),
                       IF CommentOf(Head(lines)) = Some(PragmaOn) THEN TRUE
                       ELSE IF CommentOf(Head(lines)) = Some(PragmaOff) THEN FALSE
                       ELSE add_nops)

C2_LastDirectiveWins ==
    pc = "returned" =>
        IF LastDirective(source_lines, "add_nops" \in DOMAIN kwargs /\ kwargs["add_nops"])
        THEN \A i \in 1..Len(instructions) :
                 instructions[i][1] # <<0, 0, 0, 0>> =>
                     /\ i + 4 <= Len(instructions)
                     /\ \A j \in 1..4 : instructions[i + j] = <<<<0, 0, 0, 0>>, None>>
        ELSE \A i \in 1..Len(instructions) : instructions[i][2] # None

(***************************************************************************)
(* C3  When the last kept token of an instruction line with N >= 1         *)
(* operands holds ";", the comment assemble_line returns is the trimmed    *)
(* text after the first ";" of that N-th token, so a trailing              *)
(* "; pragma nops_on" or "; pragma nops_off" sets add_nops as the same     *)
(* directive on a comment-only line does.                                  *)
(***************************************************************************)
C3_TrailingComment ==
    (/\ LineOk /\ IsRegistered(LastLine) /\ ArityOf(LastLine) >= 1
     /\ Len(TokensOf(LastLine)) >= ArityOf(LastLine)
     /\ str_contains(TokensOf(LastLine)[ArityOf(LastLine)], ";"))
    => LET comment == CommentIn(TokensOf(LastLine)[ArityOf(LastLine)])
       IN  /\ last[1].val.comment = Some(comment)
           /\ comment = PragmaOn /\ pc # "raised" => settings.add_nops = TRUE
           /\ comment = PragmaOff /\ pc # "raised" => settings.add_nops = FALSE

(***************************************************************************)
(* C4  An instruction line whose mnemonic expects N operands and whose     *)
(* remainder supplies fewer, with or without a trailing comment, fails     *)
(* with the arity error naming the mnemonic and N, and with nothing else.  *)
(***************************************************************************)
\* the number of comma-separated operands in front of the comment
SuppliedOf(line) ==
    IF str_strip(str_partition(RemainderOf(line), ";")[1]) = <<>> THEN 0
    ELSE Len(str_split(str_partition(RemainderOf(line), ";")[1], ","))

C4_ArityError ==
    (/\ LineDone /\ IsRegistered(LastLine) /\ ArityOf(LastLine) >= 1
     /\ SuppliedOf(LastLine) < ArityOf(LastLine))
    => /\ ~last[1].ok
       /\ last[1].exc = "AssertionError"
       /\ last[1].fmt = "instruction {} needs {} operands"
       /\ last[1].arg = MnemonicOf(LastLine)
       /\ last[1].n = ArityOf(LastLine)

(***************************************************************************)
(* C5  Every failure a source line causes aborts the run at that line,     *)
(* nothing is returned, no later line is processed, and the error carries  *)
(* the original text of the offending line.                                *)
(***************************************************************************)
C5_ErrorCarriesLine ==
    pc = "raised" =>
        /\ result # None /\ ~result[1].ok
        /\ result[1].line = Some(source_lines[idx + 1])
        /\ \A i \in 1..Len(instructions) :
               \E k \in 1..(idx + 1) : instructions[i][2] = Some(source_lines[k])

(***************************************************************************)
(* C6  Whenever a line assembles into a word, every value of its merged    *)
(* field map fits its field (rs, rt, rd in 0..31, imm in 0..65535); a line *)
(* with a value outside its field's width fails.                           *)
(***************************************************************************)
C6_FieldsFit == WordOk => FieldsFit(last[1].val.parsed)

(***************************************************************************)
(* C7  A decimal immediate v of an immediate-type instruction whose        *)
(* register operands are valid: for -32768 <= v <= -1 the imm field and    *)
(* the low 16 bits of the word hold v + 65536, for 0 <= v <= 65535 they    *)
(* hold v, and for v outside [-32768, 65535] the line fails with the range *)
(* error; the low 16 bits read as signed (v < 0) or unsigned give back v.  *)
(***************************************************************************)
DirectImmNames == {Addi.name, Andi.name, Ori.name, Xori.name}
OffsetNames == {Lw.name, Sw.name}
Signed16(x) == IF x >= 32768 THEN x - 65536 ELSE x

IsDecimalText(text) ==
    /\ ~str_startswith(text, <<"0", "x">>)
    /\ ~str_startswith(text, <<"0", "b">>)
    /\ ~str_startswith(text, <<"2", "_">>)
    /\ py_int(text).ok
RegisterFits(text) ==
    reg_spec_to_number(text).ok /\ reg_spec_to_number(text).val \in 0..31

\* the immediate text and the register texts of an immediate-type line
ImmTextOf(line) ==
    IF MnemonicOf(line) \in DirectImmNames
    THEN OperandIn(TokensOf(line)[3])
    ELSE str_rpartition(OperandIn(TokensOf(line)[2]), "(")[1]
RegTextsOf(line) ==
    IF MnemonicOf(line) \in DirectImmNames
    THEN {str_strip(TokensOf(line)[1]), str_strip(TokensOf(line)[2])}
    ELSE {str_strip(TokensOf(line)[1]),
          LET reg_part == str_rpartition(OperandIn(TokensOf(line)[2]), "(")[3]
          IN  SubSeq(reg_part, 1, Len(reg_part) - 1)}

C7_Case ==
    /\ LineDone /\ IsRegistered(LastLine)
    /\ MnemonicOf(LastLine) \in DirectImmNames \cup OffsetNames
    /\ Len(TokensOf(LastLine)) >= ArityOf(LastLine)
    /\ MnemonicOf(LastLine) \in OffsetNames =>
           /\ str_contains(OperandIn(TokensOf(LastLine)[2]), "(")
           /\ ~str_contains(TokensOf(LastLine)[1], ";")
    /\ \A text \in RegTextsOf(LastLine) : RegisterFits(text)
    /\ IsDecimalText(ImmTextOf(LastLine))

C7_DecimalImmediate ==
    C7_Case =>
        LET v == py_int(ImmTextOf(LastLine)).val
        IN  /\ v \in -32768..-1 =>
                /\ LineOk
                /\ last[1].val.parsed["imm"] = v + 65536
                /\ Low16(last[1].val.instr) = v + 65536
                /\ Signed16(Low16(last[1].val.instr)) = v
            /\ v \in 0..65535 =>
                /\ LineOk
                /\ last[1].val.parsed["imm"] = v
                /\ Low16(last[1].val.instr) = v
            /\ (v < -32768 \/ v > 65535) =>
                /\ ~last[1].ok
                /\ last[1].exc = "AssertionError"
                /\ last[1].fmt = "immediate of {} cannot fit in the field"
                /\ last[1].n = v

\* the most negative immediate has been assembled into a word
C7_Witness ==
    /\ C7_Case /\ LineOk
    /\ py_int(ImmTextOf(LastLine)).val = -32768
    /\ Low16(last[1].val.instr) = 32768

(***************************************************************************)
(* C8  The expansion step turns the sequence into itself with exactly four *)
(* units (zero word, no source text) right after each unit whose word is   *)
(* not the zero word and nothing after a zero-word unit: the length grows  *)
(* by four per non-zero unit and the units that have a source text are, in *)
(* order, the sequence before the step.                                    *)
(***************************************************************************)
ZeroWord == <<0, 0, 0, 0>>
NonZeroBefore(units, i) == Cardinality({k \in 1..(i - 1) : units[k][1] # ZeroWord})
HasSourceText(unit) == unit[2] # None

Expanded(pre, post) ==
    /\ Len(post) = Len(pre) + 4 * NonZeroBefore(pre, Len(pre) + 1)
    /\ \A i \in 1..Len(pre) :
           /\ post[i + 4 * NonZeroBefore(pre, i)] = pre[i]
           /\ pre[i][1] # ZeroWord =>
                  \A j \in 1..4 : post[i + 4 * NonZeroBefore(pre, i) + j] = <<ZeroWord, None>>
    /\ SelectSeq(post, HasSourceText) = pre

IsCodeLine(line) == ~IsBlank(line) /\ ~IsCommentOnly(line)
LowercaseHex == <<"0", "1", "2", "3", "4", "5", "6", "7", "8", "9", "a", "b", "c", "d", "e", "f">>

HexRendered(units, text) ==
    /\ Len(text) = IF units = <<>> THEN 0 ELSE 9 * Len(units) - 1
    /\ \A i \in 1..Len(units) :
           /\ Len(units[i][1]) = 4
           /\ \A j \in 1..4 :
                  /\ text[9 * (i - 1) + 2 * j - 1] = LowercaseHex[(units[i][1][j] \div 16) + 1]
                  /\ text[9 * (i - 1) + 2 * j] = LowercaseHex[(units[i][1][j] % 16) + 1]
    /\ \A i \in 1..(Len(units) - 1) : text[9 * i] = "\n"

C9_PlainHexRender ==
    pc = "returned" /\ ~settings.add_nops /\ ~settings.as_vhdl =>
        /\ Len(result[1].val.instructions) = Len(SelectSeq(source_lines, IsCodeLine))
        /\ \A i \in 1..Len(result[1].val.instructions) :
               result[1].val.instructions[i][2] = Some(SelectSeq(source_lines, IsCodeLine)[i])
        /\ HexRendered(result[1].val.instructions, result[1].val.code_text)

\* a plain run over two instructions and a pragma line has returned
C9_Witness ==
    /\ pc = "returned" /\ ~settings.add_nops /\ ~settings.as_vhdl
    /\ Len(result[1].val.instructions) = 2
    /\ Len(source_lines) = 3
    /\ \E i \in 1..3 : IsCommentOnly(source_lines[i])
    /\ \E i \in 1..2 : result[1].val.instructions[i][1] = <<32, 10, 0, 1>>

(***************************************************************************)
(* C10  Every invocation starts from the settings its caller passed, the   *)
(* ones not passed being false, whatever earlier invocations did, and an   *)
(* invocation given the source lines and settings of the first one ends as *)
(* the first one did: same sequence and text, or same failure.             *)
(***************************************************************************)
SettingNames == {"add_nops", "as_vhdl", "byte_addressed"}
Passed(name) == name \in DOMAIN kwargs /\ kwargs[name]

C10_NoPersistence ==
    /\ (pc \in {"loop", "expand"} /\ idx = 0 /\ last = None) =>
           \A name \in SettingNames : settings[name] = Passed(name)
    /\ (result # None /\ first # None
        /\ kwargs = first[1].kwargs /\ source_lines = first[1].source_lines) =>
           result[1] = first[1].result

\* a later invocation repeats the first one after a run that ended with
\* add_nops switched on by a directive
C10_Witness ==
    /\ calls >= 2 /\ pc = "returned" /\ left
    /\ ~Passed("add_nops")
    /\ first # None
    /\ kwargs = first[1].kwargs /\ source_lines = first[1].source_lines
    /\ \E i \in 1..Len(source_lines) : IsCodeLine(source_lines[i])
    /\ ~settings.add_nops

============================================================================
